---- MODULE Spec2Model ----
(***************************************************************************)
(* Model of voting.py: the winner-determination rules dictatorship,        *)
(* scoring_rule, plurality, veto, borda and STV, with their helpers        *)
(* tie_break and calculate_points.                                         *)
(*                                                                         *)
(* A behaviour is one call of one function on one preference profile.     *)
(* calculate_points advances one voter per step, STV one round per step.   *)
(***************************************************************************)
EXTENDS FiniteSets, Integers, Sequences, TLC

VARIABLES prefs, call, pc, scores, vi, candidates, round, tb_args, result

vars == <<prefs, call, pc, scores, vi, candidates, round, tb_args, result>>

\* Largest number of candidates and of voters of a profile.
MaxCands == 3
MaxVoters == 2

----------------------------------------------------------------------------
(* Values a call can end with. *)

Return(c) == [kind |-> "return", val |-> c, msg |-> ""]
NoneVal == [kind |-> "none", val |-> 0, msg |-> ""]
Raise(m) == [kind |-> "raise", val |-> 0, msg |-> m]
Pending == [kind |-> "pending", val |-> 0, msg |-> ""]

InvalidAgentMsg == "Invalid agent"
LengthMismatchMsg == "Score vector length mismatch"
\* What an implementation of get_preference raises when asked about a voter
\* it does not know (the base class fixes no behaviour for that).
UnknownVoterMsg == "get_preference: unknown voter"

----------------------------------------------------------------------------
(* Sequences. *)

Range(s) == {s[i] : i \in 1..Len(s)}
InSeq(x, s) == \E i \in 1..Len(s) : s[i] = x
Ident(n) == [i \in 1..n |-> i]
SeqsUpTo(S, k) == UNION {[1..m -> S] : m \in 0..k}

\* max(...) and min(...) of the values of a score table over a set of keys.
MaxOf(f, S) == CHOOSE m \in {f[c] : c \in S} : \A d \in S : f[d] <= m
MinOf(f, S) == CHOOSE m \in {f[c] : c \in S} : \A d \in S : f[d] >= m

\* sorted(seq, key=...): Python's stable sort, here by insertion; key is a
\* function from the elements to integers.
RECURSIVE sorted(_, _)
sorted(seq, key) ==
    IF seq = <<>> THEN <<>>
    ELSE LET x == seq[Len(seq)]
             s == sorted(SubSeq(seq, 1, Len(seq) - 1), key)
             le(y) == key[y] <= key[x]
             gt(y) == key[y] > key[x]
         IN SelectSeq(s, le) \o <<x>> \o SelectSeq(s, gt)

----------------------------------------------------------------------------
(* Preference profiles. *)

\* Rankings a voter can hold over n candidates: the total strict rankings
\* (bijections onto 0..n-1) and, as profiles breaking that invariant, the
\* rankings that give every candidate rank 0 or every candidate rank n-1.
IsStrictRanking(r, n) ==
    /\ \A c \in 1..n : r[c] \in 0..(n - 1)
    /\ \A c, d \in 1..n : r[c] = r[d] => c = d
StrictRankings(n) == {r \in [1..n -> 0..(n - 1)] : IsStrictRanking(r, n)}
FlatRankings(n) == {[c \in 1..n |-> k] : k \in {0, n - 1}}
Rankings(n) == StrictRankings(n) \cup FlatRankings(n)

Profile(n, v, rk) == [candidates |-> Ident(n), voters |-> Ident(v), rank |-> rk]

\* The three-candidate, three-voter scenario: 1>2>3, 2>1>3, 3>1>2.
ScenarioProfile == Profile(3, 3, <<(<<0, 1, 2>>), (<<1, 0, 2>>), (<<1, 2, 0>>)>>)

NoProfile == Profile(0, 0, <<>>)

\* The profiles a call is made on: every profile within the bounds, and the
\* scenario.
IsProfile(p) ==
    \/ p = ScenarioProfile
    \/ \E n \in 1..MaxCands, v \in 0..MaxVoters :
          \E rk \in [1..v -> Rankings(n)] : p = Profile(n, v, rk)

NumCands(p) == Len(p.candidates)
NumVoters(p) == Len(p.voters)
IsVoter(p, a) == InSeq(a, p.voters)

\* Preference.get_preference(candidate, voter), for a voter of the profile.
get_preference(p, c, voter) == p.rank[voter][c]

\* The ranking invariant: every voter's ranks are a bijection onto 0..n-1.
ValidProfile(p) ==
    \A w \in Range(p.voters) : IsStrictRanking(p.rank[w], NumCands(p))

\* A voter outside voters(): the agents a caller can pass are the voters and
\* this one.
Stranger(p) == NumVoters(p) + 1
Agents(p) == Range(p.voters) \cup {Stranger(p)}

----------------------------------------------------------------------------
(* tie_break and dictatorship. *)

\* next((c for c in seq if <c passes>), None), with the set of the values
\* that pass.
FirstOrNone(seq, passing) ==
    LET hits == {i \in 1..Len(seq) : seq[i] \in passing}
    IN IF hits = {} THEN NoneVal
       ELSE Return(seq[CHOOSE i \in hits : \A j \in hits : i <= j])

\* Variant: the first of winners that is a candidate.
FirstOfWinners(cs, ws) == FirstOrNone(ws, Range(cs))

tie_break(cs, ws) == FirstOrNone(cs, {c \in Range(cs) : InSeq(c, ws)})

\* The candidates the agent, a voter, ranks 0.
RankedTop(p, agent) == {c \in Range(p.candidates) : get_preference(p, c, agent) = 0}

\* Variant: an error when the agent ranks no candidate 0.
DictatorshipStrict(p, agent) ==
    IF ~IsVoter(p, agent) THEN Raise(InvalidAgentMsg)
    ELSE LET r == FirstOrNone(p.candidates, RankedTop(p, agent))
         IN IF r = NoneVal THEN Raise("No rank-zero candidate") ELSE r

\* Variant: no check of the agent.
DictatorshipUnchecked(p, agent) ==
    IF IsVoter(p, agent) THEN FirstOrNone(p.candidates, RankedTop(p, agent))
    ELSE NoneVal

dictatorship(p, agent) ==
    IF ~IsVoter(p, agent) THEN Raise(InvalidAgentMsg)
    ELSE FirstOrNone(p.candidates, RankedTop(p, agent))

----------------------------------------------------------------------------
(* Calls. *)

CallRec(op, agent, sv, tb, order, ws) ==
    [op |-> op, agent |-> agent, score_vector |-> sv, tb |-> tb,
     order |-> order, winners |-> ws]

Idle ==
    /\ pc = "call"
    /\ scores = <<>>
    /\ vi = 0
    /\ candidates = {}
    /\ round = 0
    /\ tb_args = <<>>
    /\ result = Pending

Finish(r) ==
    /\ pc' = "done"
    /\ result' = r

\* ---- tie_break(candidates, winners) ----

TieBreakInputs == SeqsUpTo(1..MaxCands, MaxCands)

InitTB ==
    /\ prefs = NoProfile
    /\ \E o \in TieBreakInputs, w \in TieBreakInputs :
          call = CallRec("tie_break", 0, <<>>, 0, o, w)
    /\ Idle

TieBreakCall ==
    /\ pc = "call"
    /\ call.op = "tie_break"
    /\ Finish(tie_break(call.order, call.winners))
    /\ UNCHANGED <<prefs, call, scores, vi, candidates, round, tb_args>>

NextTB == TieBreakCall

SpecTB == InitTB /\ [][NextTB]_vars

\* ---- dictatorship(preferences, agent) ----

InitDict ==
    /\ IsProfile(prefs)
    /\ call \in {CallRec("dictatorship", a, <<>>, 0, <<>>, <<>>) : a \in Agents(prefs)}
    /\ Idle

DictatorshipCall ==
    /\ pc = "call"
    /\ call.op = "dictatorship"
    /\ Finish(dictatorship(prefs, call.agent))
    /\ UNCHANGED <<prefs, call, scores, vi, candidates, round, tb_args>>

NextDict == DictatorshipCall

SpecDict == InitDict /\ [][NextDict]_vars

----------------------------------------------------------------------------
(* calculate_points and the positional rules. *)

PluralityVector(n) == [i \in 1..n |-> IF i = 1 THEN 1 ELSE 0]
BordaVector(n) == [i \in 1..n |-> n - i]

\* Step 1 of calculate_points: {c: 0 for c in preferences.candidates()}
ZeroScores(p) == [c \in Range(p.candidates) |-> 0]

\* The position (from 1) of candidate c in a sequence of distinct candidates.
IndexOf(seq, c) == CHOOSE i \in 1..Len(seq) : seq[i] = c

\* scoring_fn of scoring_rule: the candidates sorted by the voter's ranking,
\* the candidate at each position earning that position's entry of sv.
\* Variant: the candidates sorted from the worst rank to the best.
ScoringRuleStepDescending(p, sv, voter, sc) ==
    LET sorted_candidates == sorted(p.candidates, [c \in Range(p.candidates) |-> 0 - p.rank[voter][c]])
    IN [c \in DOMAIN sc |-> sc[c] + sv[IndexOf(sorted_candidates, c)]]

ScoringRuleStep(p, sv, voter, sc) ==
    LET sorted_candidates == sorted(p.candidates, p.rank[voter])
    IN [c \in DOMAIN sc |-> sc[c] + sv[IndexOf(sorted_candidates, c)]]

\* scoring_fn of plurality: one point to every candidate the voter ranks 0.
PluralityStep(p, voter, sc) ==
    [c \in DOMAIN sc |->
        IF get_preference(p, c, voter) = 0 THEN sc[c] + 1 ELSE sc[c]]

\* scoring_fn of veto: one point to every candidate not ranked n-1.
VetoStep(p, voter, sc) ==
    [c \in DOMAIN sc |->
        IF get_preference(p, c, voter) /= NumCands(p) - 1 THEN sc[c] + 1 ELSE sc[c]]

\* scoring_fn of borda: n-1-rank points to every candidate.
BordaStep(p, voter, sc) ==
    [c \in DOMAIN sc |-> sc[c] + NumCands(p) - 1 - get_preference(p, c, voter)]

scoring_fn(p, cl, voter, sc) ==
    CASE cl.op = "scoring_rule" -> ScoringRuleStep(p, cl.score_vector, voter, sc)
      [] cl.op = "plurality" -> PluralityStep(p, voter, sc)
      [] cl.op = "veto" -> VetoStep(p, voter, sc)
      [] cl.op = "borda" -> BordaStep(p, voter, sc)

highest_score(p, sc) == MaxOf(sc, Range(p.candidates))

\* [c for c, s in scores.items() if s == highest_score]
winners(p, sc) ==
    LET highest == highest_score(p, sc)
        is_top(c) == sc[c] = highest
    IN SelectSeq(p.candidates, is_top)

\* Variant: tie_break on the candidates as enumerated, whatever tb is.
TieBreakFnNatural(p, tb, cs, ws) == {tie_break(cs, ws)}

\* The tie-break function a rule hands to calculate_points, as the set of
\* results it can give. tb = 0 is tie_break itself. tb = a is
\*   lambda c, w: tie_break(sorted(c, key=lambda x: get_preference(x, a)), w)
\* which scoring_rule builds from tie_break_agent. For an a outside voters()
\* get_preference is not defined by this module: the lookup raises, or it
\* yields ranks that sort the candidates in some order, and then any of the
\* candidates in ws can be the first of them.
tie_break_fn(p, tb, cs, ws) ==
    IF tb = 0 THEN {tie_break(cs, ws)}
    ELSE IF IsVoter(p, tb) THEN {tie_break(sorted(cs, p.rank[tb]), ws)}
    ELSE {Raise(UnknownVoterMsg)} \cup
         (IF Range(cs) \cap Range(ws) = {} THEN {NoneVal}
          ELSE {Return(c) : c \in Range(cs) \cap Range(ws)})

Outcome(r, inv) == [result |-> r, tb_args |-> inv]

\* Variant: the first tied candidate, with no tie-break.
PickWinnerFirstWinner(p, tb, sc) ==
    {Outcome(Return(winners(p, sc)[1]), <<>>)}

\* Steps 3-5 of calculate_points: the outcomes it can have from a score
\* table, each the value returned and the invocations of tie_break_fn made.
pick_winner(p, tb, sc) ==
    LET ws == winners(p, sc)
    IN IF Len(ws) > 1
       THEN {Outcome(r, <<[order |-> p.candidates, winners |-> ws]>>) :
                r \in tie_break_fn(p, tb, p.candidates, ws)}
       ELSE {Outcome(Return(ws[1]), <<>>)}

\* Steps 1-2 of calculate_points after the first k voters.
RECURSIVE tally(_, _, _)
tally(p, cl, k) ==
    IF k = 0 THEN ZeroScores(p)
    ELSE scoring_fn(p, cl, p.voters[k], tally(p, cl, k - 1))

calculate_points(p, cl) ==
    {o.result : o \in pick_winner(p, cl.tb, tally(p, cl, NumVoters(p)))}

plurality(p, tb) == calculate_points(p, CallRec("plurality", 0, <<>>, tb, <<>>, <<>>))
veto(p, tb) == calculate_points(p, CallRec("veto", 0, <<>>, tb, <<>>, <<>>))
borda(p, tb) == calculate_points(p, CallRec("borda", 0, <<>>, tb, <<>>, <<>>))

\* Variant: only too short a score vector is refused.
ScoringRuleGuardAtLeast(p, sv, agent) ==
    IF Len(sv) < NumCands(p) THEN Raise(LengthMismatchMsg) ELSE Pending

\* Variant: tie_break_agent is checked as dictatorship checks its agent.
ScoringRuleGuardWithAgent(p, sv, agent) ==
    IF Len(sv) /= NumCands(p) THEN Raise(LengthMismatchMsg)
    ELSE IF ~IsVoter(p, agent) THEN Raise(InvalidAgentMsg)
    ELSE Pending

\* The checks scoring_rule makes before it scores: the length of score_vector.
scoring_rule_guard(p, sv, agent) ==
    IF Len(sv) /= NumCands(p) THEN Raise(LengthMismatchMsg) ELSE Pending

scoring_rule(p, sv, agent) ==
    IF scoring_rule_guard(p, sv, agent) /= Pending
    THEN {scoring_rule_guard(p, sv, agent)}
    ELSE calculate_points(p, CallRec("scoring_rule", agent, sv, agent, <<>>, <<>>))

\* ---- the calls, one voter per step ----

ScoreVectors(n) ==
    {PluralityVector(n), BordaVector(n), BordaVector(n - 1), BordaVector(n + 1)}

TieBreakChoices(p) == {0} \cup Range(p.voters)

ScoreCalls(p) ==
    {CallRec("scoring_rule", a, sv, a, <<>>, <<>>) :
        a \in Agents(p), sv \in ScoreVectors(NumCands(p))}
    \cup {CallRec(op, 0, <<>>, tb, <<>>, <<>>) :
        op \in {"plurality", "veto", "borda"}, tb \in TieBreakChoices(p)}

InitScore ==
    /\ IsProfile(prefs)
    /\ call \in ScoreCalls(prefs)
    /\ Idle

\* calculate_points, step 1.
EnterCalculatePoints ==
    /\ pc' = "scoring"
    /\ scores' = ZeroScores(prefs)
    /\ vi' = 0
    /\ UNCHANGED <<prefs, call, candidates, round, tb_args, result>>

ScoringRuleCall ==
    /\ pc = "call"
    /\ call.op = "scoring_rule"
    /\ IF scoring_rule_guard(prefs, call.score_vector, call.agent) /= Pending
       THEN /\ Finish(scoring_rule_guard(prefs, call.score_vector, call.agent))
            /\ UNCHANGED <<prefs, call, scores, vi, candidates, round, tb_args>>
       ELSE EnterCalculatePoints

PluralityCall ==
    /\ pc = "call"
    /\ call.op = "plurality"
    /\ EnterCalculatePoints

VetoCall ==
    /\ pc = "call"
    /\ call.op = "veto"
    /\ EnterCalculatePoints

BordaCall ==
    /\ pc = "call"
    /\ call.op = "borda"
    /\ EnterCalculatePoints

\* calculate_points, step 2: one turn of the loop over voters().
ScoreVoter ==
    /\ pc = "scoring"
    /\ vi < NumVoters(prefs)
    /\ scores' = scoring_fn(prefs, call, prefs.voters[vi + 1], scores)
    /\ vi' = vi + 1
    /\ UNCHANGED <<prefs, call, pc, candidates, round, tb_args, result>>

\* calculate_points, steps 3-5.
PickWinner ==
    /\ pc = "scoring"
    /\ vi >= NumVoters(prefs)
    /\ \E o \in pick_winner(prefs, call.tb, scores) :
          /\ Finish(o.result)
          /\ tb_args' = o.tb_args
    /\ UNCHANGED <<prefs, call, scores, vi, candidates, round>>

NextScore ==
    \/ ScoringRuleCall
    \/ PluralityCall
    \/ VetoCall
    \/ BordaCall
    \/ ScoreVoter
    \/ PickWinner

SpecScore == InitScore /\ [][NextScore]_vars

----------------------------------------------------------------------------
(* STV. *)

\* Variant: rank 1 taken for the top rank.
FirstCountRankOne(p, c) ==
    Cardinality({w \in Range(p.voters) : get_preference(p, c, w) = 1})

\* sum(1 for v in voters if preferences.get_preference(c, v) == 0)
first_count(p, c) ==
    Cardinality({w \in Range(p.voters) : get_preference(p, c, w) = 0})

\* The scores dictionary of one round, over the remaining candidates.
stv_scores(p, cands) == [c \in cands |-> first_count(p, c)]

\* Variant: one candidate with the lowest count goes out per round.
StvEliminatedOne(p, cands) ==
    LET sc == stv_scores(p, cands)
        lowest == {c \in cands : sc[c] = MinOf(sc, cands)}
    IN {CHOOSE c \in lowest : \A d \in lowest : c <= d}

\* Variant: nobody goes out when all remaining candidates tie.
StvEliminatedUnlessAll(p, cands) ==
    LET sc == stv_scores(p, cands)
        lowest == {c \in cands : sc[c] = MinOf(sc, cands)}
    IN IF lowest = cands THEN {} ELSE lowest

\* {c for c, count in scores.items() if count == min_count}
stv_eliminated(p, cands) ==
    LET sc == stv_scores(p, cands)
        min_count == MinOf(sc, cands)
    IN {c \in cands : sc[c] = min_count}

\* Variant: next(iter(candidates)) without the default.
StvResultNoDefault(cands) ==
    IF cands = {} THEN Raise("StopIteration") ELSE Return(CHOOSE c \in cands : TRUE)

\* next(iter(candidates), None), reached with at most one candidate left.
stv_result(cands) ==
    IF cands = {} THEN NoneVal ELSE Return(CHOOSE c \in cands : TRUE)

InitSTV ==
    /\ IsProfile(prefs)
    /\ call \in {CallRec("STV", 0, <<>>, tb, <<>>, <<>>) : tb \in TieBreakChoices(prefs)}
    /\ Idle

\* candidates, voters = set(preferences.candidates()), preferences.voters()
STVEnter ==
    /\ pc = "call"
    /\ call.op = "STV"
    /\ pc' = "round"
    /\ candidates' = Range(prefs.candidates)
    /\ UNCHANGED <<prefs, call, scores, vi, round, tb_args, result>>

\* One turn of the while loop.
STVRound ==
    /\ pc = "round"
    /\ Cardinality(candidates) > 1
    /\ scores' = stv_scores(prefs, candidates)
    /\ candidates' = candidates \ stv_eliminated(prefs, candidates)
    /\ round' = round + 1
    /\ UNCHANGED <<prefs, call, pc, vi, tb_args, result>>

STVReturn ==
    /\ pc = "round"
    /\ ~(Cardinality(candidates) > 1)
    /\ Finish(stv_result(candidates))
    /\ UNCHANGED <<prefs, call, scores, vi, candidates, round, tb_args>>

NextSTV ==
    \/ STVEnter
    \/ STVRound
    \/ STVReturn

SpecSTV == InitSTV /\ [][NextSTV]_vars

\* The loop is straight-line code: it keeps running until it returns.
LiveSTV == SpecSTV /\ WF_vars(NextSTV)

----------------------------------------------------------------------------
(* Properties. *)

Done == pc = "done"
Cands == Range(prefs.candidates)
Voters == Range(prefs.voters)

\* The call runs calculate_points.
CalcCall ==
    \/ call.op \in {"plurality", "veto", "borda"}
    \/ call.op = "scoring_rule" /\ Len(call.score_vector) = NumCands(prefs)

\* The candidates holding the maximum of a score table.
TopScorers(sc) == {c \in Cands : \A d \in Cands : sc[d] <= sc[c]}

\* C1: calculate_points starts every candidate at 0, applies the scoring
\* step once per voter in voters() order, then returns the only candidate
\* with the maximum score without invoking tie_break_fn, or, when several
\* hold the maximum, tie_break_fn(candidates(), winners) with winners exactly
\* the candidates holding it.
C1_CalculatePoints ==
    CalcCall =>
        /\ (pc = "scoring" /\ vi = 0) => \A c \in Cands : scores[c] = 0
        /\ pc = "scoring" =>
              /\ vi <= NumVoters(prefs)
              /\ tb_args = <<>>
        /\ Done =>
              /\ vi = NumVoters(prefs)
              /\ scores = tally(prefs, call, NumVoters(prefs))
              /\ LET top == TopScorers(scores)
                 IN IF Cardinality(top) = 1
                    THEN /\ result = Return(CHOOSE c \in top : TRUE)
                         /\ tb_args = <<>>
                    ELSE /\ Len(tb_args) = 1
                         /\ tb_args[1].order = prefs.candidates
                         /\ Range(tb_args[1].winners) = top
                         /\ Len(tb_args[1].winners) = Cardinality(top)
                         /\ result \in tie_break_fn(prefs, call.tb,
                                           tb_args[1].order, tb_args[1].winners)

\* A tie among several candidates that the tie-break settles for a candidate
\* other than the first of the tied ones, after two voters were scored.
C1_Witness ==
    /\ Done
    /\ CalcCall
    /\ vi = 2
    /\ Len(tb_args) = 1
    /\ result.kind = "return"
    /\ result.val /= tb_args[1].winners[1]

\* C2: tie_break(order, winners) returns the first element of order that is
\* in winners whenever winners is non-empty and meets order, and None when
\* winners is empty.
C2_TieBreakFirstInOrder ==
    (Done /\ call.op = "tie_break") =>
        LET o == call.order
            w == call.winners
        IN /\ (w /= <<>> /\ Range(o) \cap Range(w) /= {}) =>
                 \E i \in 1..Len(o) :
                     /\ result = Return(o[i])
                     /\ o[i] \in Range(w)
                     /\ \A j \in 1..(i - 1) : o[j] \notin Range(w)
           /\ w = <<>> => result = NoneVal

\* tie_break picked a winner that is not the first of the winners list.
C2_Witness ==
    /\ Done
    /\ call.op = "tie_break"
    /\ Len(call.winners) >= 2
    /\ result.kind = "return"
    /\ result.val /= call.winners[1]
    /\ result.val /= call.order[1]

\* The profile with voter w's ranking replaced by r.
WithRanking(p, w, r) == [p EXCEPT !.rank[w] = r]

\* C3: dictatorship fails with the invalid-agent error when agent is not in
\* voters(); otherwise, on a profile whose rankings are bijections, it returns
\* the one candidate the agent ranks 0, whatever the other voters' rankings.
C3_Dictatorship ==
    (Done /\ call.op = "dictatorship") =>
        /\ ~IsVoter(prefs, call.agent) => result = Raise(InvalidAgentMsg)
        /\ (IsVoter(prefs, call.agent) /\ ValidProfile(prefs)) =>
              /\ result.kind = "return"
              /\ result.val \in Cands
              /\ prefs.rank[call.agent][result.val] = 0
              /\ \A c \in Cands : prefs.rank[call.agent][c] = 0 => c = result.val
              /\ \A w \in Voters \ {call.agent} :
                    \A r \in Rankings(NumCands(prefs)) :
                        dictatorship(WithRanking(prefs, w, r), call.agent) = result

\* The dictator's choice differs from another voter's top candidate.
C3_Witness ==
    /\ Done
    /\ call.op = "dictatorship"
    /\ IsVoter(prefs, call.agent)
    /\ ValidProfile(prefs)
    /\ result.kind = "return"
    /\ \E w \in Voters : prefs.rank[w][result.val] /= 0

\* C4: scoring_rule fails with the score-vector error whenever the length of
\* score_vector differs from the number of candidates, before any voter is
\* scored: no score table is built and no winner is returned.
C4_LengthMismatchFailsFirst ==
    (call.op = "scoring_rule" /\ Len(call.score_vector) /= NumCands(prefs)) =>
        /\ pc \in {"call", "done"}
        /\ scores = <<>>
        /\ vi = 0
        /\ tb_args = <<>>
        /\ Done => result = Raise(LengthMismatchMsg)

\* A call with a score vector one entry too long, on a profile with voters.
C4_Witness ==
    /\ Done
    /\ call.op = "scoring_rule"
    /\ Len(call.score_vector) = NumCands(prefs) + 1
    /\ NumVoters(prefs) >= 1
    /\ result = Raise(LengthMismatchMsg)

\* The score table of the call once every voter is scored.
FinalScores == tally(prefs, call, NumVoters(prefs))

\* C5, as claimed: scoring_rule fails with the invalid-agent error whenever
\* tie_break_agent is not in voters(), also when no tie occurs.
C5_AsClaimed ==
    (Done /\ call.op = "scoring_rule"
          /\ Len(call.score_vector) = NumCands(prefs)
          /\ ~IsVoter(prefs, call.agent)) =>
        result = Raise(InvalidAgentMsg)

\* C5, amended: scoring_rule does not check tie_break_agent. With a score
\* vector of the right length and exactly one candidate holding the maximum
\* score it returns that candidate, also for a tie_break_agent outside
\* voters(), and tie_break_fn is not invoked.
C5_AgentNotChecked ==
    (Done /\ call.op = "scoring_rule"
          /\ Len(call.score_vector) = NumCands(prefs)
          /\ ~IsVoter(prefs, call.agent)
          /\ Cardinality(TopScorers(FinalScores)) = 1) =>
        /\ result = Return(CHOOSE c \in TopScorers(FinalScores) : TRUE)
        /\ tb_args = <<>>

\* A winner returned to a caller whose tie_break_agent is not a voter.
C5_Witness ==
    /\ Done
    /\ call.op = "scoring_rule"
    /\ Len(call.score_vector) = NumCands(prefs)
    /\ ~IsVoter(prefs, call.agent)
    /\ NumVoters(prefs) >= 1
    /\ NumCands(prefs) >= 2
    /\ Cardinality(TopScorers(FinalScores)) = 1
    /\ result.kind = "return"

\* C6: on a profile whose rankings are bijections and for a voter a,
\* scoring_rule with [1,0,...,0] and tie_break_agent a returns what plurality
\* returns with the tie-break that orders the candidates by a's ranking, and
\* with [n-1,...,0] what borda returns with that tie-break.
C6_ScoringRuleMatchesPluralityBorda ==
    (Done /\ call.op = "scoring_rule"
          /\ ValidProfile(prefs)
          /\ IsVoter(prefs, call.agent)) =>
        /\ call.score_vector = PluralityVector(NumCands(prefs)) =>
              plurality(prefs, call.agent) = {result}
        /\ call.score_vector = BordaVector(NumCands(prefs)) =>
              borda(prefs, call.agent) = {result}

\* A Borda-vector call over three candidates that ends in a tie which the
\* agent's ranking settles for a candidate other than the first tied one.
C6_Witness ==
    /\ Done
    /\ call.op = "scoring_rule"
    /\ ValidProfile(prefs)
    /\ IsVoter(prefs, call.agent)
    /\ NumCands(prefs) = 3
    /\ call.score_vector = BordaVector(3)
    /\ Len(tb_args) = 1
    /\ result.kind = "return"
    /\ result.val /= tb_args[1].winners[1]

\* The candidates no voter ranks at position 0.
NeverFirst == {c \in Cands : first_count(prefs, c) = 0}

\* C7, as claimed: on every profile STV removes every candidate that no voter
\* ranks first.
C7_AsClaimed ==
    (Done /\ call.op = "STV") => candidates \cap NeverFirst = {}

\* C7, amended: on every profile with two or more candidates, every candidate
\* that no voter ranks first is removed in round 1: STV runs a first round, and
\* from its end on no such candidate remains.
C7_NeverFirstOutInRoundOne ==
    (call.op = "STV" /\ NumCands(prefs) >= 2) =>
        /\ round >= 1 => candidates \cap NeverFirst = {}
        /\ Done => round >= 1

\* The end of round 1 on a profile where a candidate nobody ranks first went
\* out while another candidate stays.
C7_Witness ==
    /\ call.op = "STV"
    /\ pc = "round"
    /\ round = 1
    /\ NeverFirst /= {}
    /\ candidates /= {}

\* C8: STV terminates: the remaining set starts as all candidates, every
\* round removes at least one candidate and adds none, and the call ends with
\* at most one remaining candidate, an original one.
C8_STVTerminates ==
    /\ []((pc = "round" /\ round = 0) => candidates = Cands)
    /\ [][round' /= round =>
            (candidates' \subseteq candidates /\ candidates' /= candidates)]_vars
    /\ [][candidates' /= candidates =>
            (pc = "call" \/ round' = round + 1)]_vars
    /\ [](Done => (Cardinality(candidates) <= 1 /\ candidates \subseteq Cands))
    /\ <>Done

\* A call that returned after two rounds.
C8_Witness ==
    /\ Done
    /\ call.op = "STV"
    /\ round = 2
    /\ Cardinality(candidates) <= 1

\* Every remaining candidate has the same first-place count.
AllTied == \A c, d \in candidates : first_count(prefs, c) = first_count(prefs, d)

\* C9: a round in which all (two or more) remaining candidates have the same
\* first-place count eliminates them all, and STV then returns None; so it
\* does on the profile 1>2>3, 2>1>3, 3>1>2.
C9_FullTieGivesNoWinner ==
    /\ [][(pc = "round" /\ Cardinality(candidates) >= 2 /\ AllTied) =>
            (candidates' = {} /\ round' = round + 1)]_vars
    /\ []((Done /\ call.op = "STV" /\ candidates = {}) => result = NoneVal)
    /\ []((Done /\ call.op = "STV" /\ prefs = ScenarioProfile) =>
            (result = NoneVal /\ round = 1))

\* STV on the scenario profile, finished after its single round.
C9_Witness ==
    /\ Done
    /\ call.op = "STV"
    /\ prefs = ScenarioProfile
    /\ round = 1
    /\ candidates = {}
    /\ result = NoneVal

\* The agent of the call is a voter who ranks no candidate 0.
NoRankZero ==
    /\ IsVoter(prefs, call.agent)
    /\ \A c \in Cands : prefs.rank[call.agent][c] /= 0

\* C10, as claimed: dictatorship fails with an error when the agent, a voter,
\* ranks no candidate 0.
C10_AsClaimed ==
    (Done /\ call.op = "dictatorship" /\ NoRankZero) => result.kind = "raise"

\* C10, amended: dictatorship returns None, without an error, when the agent,
\* a voter, ranks no candidate 0.
C10_NoRankZeroGivesNone ==
    (Done /\ call.op = "dictatorship" /\ NoRankZero) => result = NoneVal

\* dictatorship finished for an agent who ranks every candidate 1.
C10_Witness ==
    /\ Done
    /\ call.op = "dictatorship"
    /\ NoRankZero
    /\ NumCands(prefs) >= 2
    /\ result = NoneVal

\* C11: in scoring_rule, when two or more candidates tie for the maximum
\* total score and tie_break_agent is a voter, the winner is a tied candidate
\* with the lowest rank the agent gives to any tied candidate, the only such
\* one when the agent's ranking is strict, wherever it stands in candidates();
\* when exactly one candidate has the maximum, that candidate is returned
\* whichever agent is passed.
C11_TieGoesToAgentsBest ==
    (Done /\ call.op = "scoring_rule"
          /\ Len(call.score_vector) = NumCands(prefs)) =>
        LET top == TopScorers(scores)
        IN /\ (Cardinality(top) >= 2 /\ IsVoter(prefs, call.agent)) =>
                 /\ result.kind = "return"
                 /\ result.val \in top
                 /\ \A d \in top :
                       prefs.rank[call.agent][result.val] <= prefs.rank[call.agent][d]
                 /\ IsStrictRanking(prefs.rank[call.agent], NumCands(prefs)) =>
                       \A d \in top \ {result.val} :
                           prefs.rank[call.agent][result.val] < prefs.rank[call.agent][d]
           /\ Cardinality(top) = 1 =>
                 /\ result = Return(CHOOSE c \in top : TRUE)
                 /\ \A a \in Agents(prefs) :
                       pick_winner(prefs, a, scores) = {Outcome(result, <<>>)}

\* A plurality-vector call over three candidates whose tie goes to a
\* candidate that is not the first tied one in candidates(), the agent
\* ranking it 0.
C11_Witness ==
    /\ Done
    /\ call.op = "scoring_rule"
    /\ NumCands(prefs) = 3
    /\ call.score_vector = PluralityVector(3)
    /\ IsVoter(prefs, call.agent)
    /\ Cardinality(TopScorers(scores)) >= 2
    /\ result.kind = "return"
    /\ result.val /= winners(prefs, scores)[1]
    /\ prefs.rank[call.agent][result.val] = 0

\* The number of voters whose rank of candidate c is 0.
TopVotes(c) == Cardinality({w \in Voters : prefs.rank[w][c] = 0})

\* The candidates with strictly more rank-0 votes than every other candidate.
StrictLeaders == {c \in Cands : \A d \in Cands \ {c} : TopVotes(c) > TopVotes(d)}

\* C12: every round of STV counts each remaining candidate's rank-0 votes
\* over all voters, the same in every round; so with two or more candidates
\* STV returns c exactly when c has strictly more rank-0 votes than every
\* other candidate and None otherwise, and with one candidate it returns that
\* candidate; the tie_break argument has no part in the result.
C12_STVIsStrictPlurality ==
    call.op = "STV" =>
        /\ round >= 1 =>
              /\ DOMAIN scores \subseteq Cands
              /\ candidates \subseteq DOMAIN scores
              /\ \A c \in DOMAIN scores : scores[c] = TopVotes(c)
        /\ Done =>
              /\ tb_args = <<>>
              /\ NumCands(prefs) = 1 => result = Return(prefs.candidates[1])
              /\ NumCands(prefs) >= 2 =>
                    IF StrictLeaders /= {}
                    THEN result = Return(CHOOSE c \in StrictLeaders : TRUE)
                    ELSE result = NoneVal

\* STV returned the candidate ranked first by every voter, over three
\* candidates, to a caller that passed an agent-ordered tie-break.
C12_Witness ==
    /\ Done
    /\ call.op = "STV"
    /\ call.tb /= 0
    /\ NumCands(prefs) = 3
    /\ result.kind = "return"
    /\ TopVotes(result.val) = NumVoters(prefs)

====
